---- MODULE Spec2Model ----
(***************************************************************************)
(* Verification model of the EKhu heating-load calculator.                 *)
(*                                                                         *)
(* Two client-side engines are modelled side by side:                      *)
(*   "lib" : src/lib/heatingLoad.ts       (the engine the page calls)      *)
(*   "api" : src/lib/api/heatingLoadAPI.ts (the lat/long based engine)     *)
(*                                                                         *)
(* Spec runs the pipeline generateHourlyClimateData, runHourlySimulation of *)
(* either engine, up to MaxCalls times on the same arguments.              *)
(* BackendSpec follows a request of the API client (or of another caller)  *)
(* to the transient and glasshouse endpoints of the Python backend.        *)
(*                                                                         *)
(* IEEE doubles are modelled by fixed-point integers:                      *)
(*   angles (radians)      : 1e-4 rad        sines, factors : 1e-4         *)
(*   angles (degrees)      : 1e-2 degree     temperatures   : 1e-2 degC    *)
(*   irradiance            : 1e-2 W/m2       power          : 1e-2 W       *)
(*   areas, volume         : 1 m2, 1 m3      U-value, SHGC  : 1e-2         *)
(*   ventilation rate      : 1e-1 ACH                                      *)
(* Every product is divided back to its unit where the source rounds, with *)
(* truncation toward zero (sign-symmetric, as floating point is).          *)
(***************************************************************************)
EXTENDS Integers, Sequences, FiniteSets

\* ------------------------------------------------------------------------
\*  Fixed-point arithmetic
\* ------------------------------------------------------------------------

SCALE == 10000

PI == 31416

HALF_PI == 15708

TWO_PI == 62832

LN2 == 6931

Max(a, b) == IF a >= b THEN a ELSE b

Min(a, b) == IF a <= b THEN a ELSE b

Abs(a) == IF a >= 0 THEN a ELSE -a

\* a / b for b > 0, truncated toward zero
Div(a, b) == IF a >= 0 THEN a \div b ELSE -((-a) \div b)

\* Math.sin on [0, pi/2] (Taylor series to x^9)
SinQ(x) ==
  LET x2 == Div(x * x, SCALE)
      x3 == Div(x2 * x, SCALE)
      x5 == Div(Div(x3, 10) * x2, 1000)
      x7 == Div(Div(x5, 10) * x2, 1000)
      x9 == Div(Div(x7, 10) * x2, 1000)
  IN  Min(SCALE, x - Div(x3, 6) + Div(x5, 120) - Div(x7, 5040) + Div(x9, 362880))

\* Math.sin on [0, 2*pi + pi/2]
SinPos(x) ==
  LET y == IF x >= TWO_PI THEN x - TWO_PI ELSE x
  IN  IF y <= HALF_PI THEN SinQ(y)
      ELSE IF y <= PI THEN SinQ(PI - y)
      ELSE IF y <= PI + HALF_PI THEN -SinQ(y - PI)
      ELSE -SinQ(TWO_PI - y)

\* Math.sin
Sin(x) == IF x < 0 THEN -SinPos(-x) ELSE SinPos(x)

\* Math.cos
Cos(x) == Sin(x + HALF_PI)

RECURSIVE AsinSearch(_, _, _)
AsinSearch(s, lo, hi) ==
  IF lo >= hi THEN lo
  ELSE LET mid == (lo + hi + 1) \div 2
       IN  IF SinQ(mid) <= s THEN AsinSearch(s, mid, hi)
           ELSE AsinSearch(s, lo, mid - 1)

\* Math.asin on [-1, 1]: the largest angle whose sine does not exceed s
Asin(s) == IF s >= 0 THEN AsinSearch(Min(s, SCALE), 0, HALF_PI)
           ELSE -AsinSearch(Min(-s, SCALE), 0, HALF_PI)

\* ln m for 1 <= m < 2
LnM(m) ==
  LET z  == Div((m - SCALE) * SCALE, m + SCALE)
      z2 == Div(z * z, SCALE)
      z3 == Div(z * z2, SCALE)
      z5 == Div(z3 * z2, SCALE)
      z7 == Div(z5 * z2, SCALE)
  IN  2 * (z + Div(z3, 3) + Div(z5, 5) + Div(z7, 7))

RECURSIVE Ln(_)
\* Math.log for x >= 1
Ln(x) == IF x >= 2 * SCALE THEN LN2 + Ln(x \div 2) ELSE LnM(x)

RECURSIVE Pow2(_)
Pow2(k) == IF k <= 0 THEN 1 ELSE 2 * Pow2(k - 1)

\* e^f for 0 <= f < ln 2
ExpF(f) ==
  LET f2 == Div(f * f, SCALE)
      f3 == Div(f2 * f, SCALE)
      f4 == Div(f3 * f, SCALE)
      f5 == Div(f4 * f, SCALE)
      f6 == Div(f5 * f, SCALE)
  IN  SCALE + f + Div(f2, 2) + Div(f3, 6) + Div(f4, 24) + Div(f5, 120) + Div(f6, 720)

\* Math.exp for 0 <= t
Exp(t) == LET k == t \div LN2 IN ExpF(t - k * LN2) * Pow2(k)

\* ------------------------------------------------------------------------
\*  lib/heatingLoad.ts : constants and steady-state formulas
\* ------------------------------------------------------------------------

\* AIR_DENSITY = 1.2 kg/m3, in tenths
AIR_DENSITY == 12

\* AIR_SPECIFIC_HEAT = 1005 J/(kg K)
AIR_SPECIFIC_HEAT == 1005

\* GROUND_EMISSIVITY (0.9) * STEFAN_BOLTZMANN (5.67e-8), in 1e-11 W/(m2 K4)
EMISSIVITY_SIGMA == 5103

\* 0 degC in 1e-2 K
KELVIN == 27315

\* Math.pow(tK, 4) for tK in 1e-2 K, in units of 100 K^4
Pow4(tK) == LET t2 == Div(tK * tK, 100000) IN t2 * t2

\* area * 0.9 * sigma * diff  (diff in 100 K^4)  ->  1e-2 W
Radiate(area, diff) == Div(Div(Div(diff, 100) * area, 1000) * EMISSIVITY_SIGMA, 100)

\* faulty variant: the temperature difference taken as outdoor - indoor
calculateConductiveLoss_flip(params, outdoorTemp) ==
  LET tempDiff   == outdoorTemp - params.indoorTemp
      wallLoss   == Div(params.wallArea * params.wallUValue * tempDiff, 100)
      roofLoss   == Div(params.roofArea * params.roofUValue * tempDiff, 100)
      floorLoss  == Div(params.floorArea * params.floorUValue * tempDiff, 100)
      windowLoss == Div(params.windowArea * params.windowUValue * tempDiff, 100)
  IN  wallLoss + roofLoss + floorLoss + windowLoss

calculateConductiveLoss(params, outdoorTemp) ==
  LET tempDiff   == params.indoorTemp - outdoorTemp
      wallLoss   == Div(params.wallArea * params.wallUValue * tempDiff, 100)
      roofLoss   == Div(params.roofArea * params.roofUValue * tempDiff, 100)
      floorLoss  == Div(params.floorArea * params.floorUValue * tempDiff, 100)
      windowLoss == Div(params.windowArea * params.windowUValue * tempDiff, 100)
  IN  wallLoss + roofLoss + floorLoss + windowLoss

\* faulty variant: the volume flow is not multiplied by the air density
calculateVentilationLoss_volume(params, outdoorTemp) ==
  LET tempDiff     == params.indoorTemp - outdoorTemp
      airFlowRate  == Div(params.ventilationRate * params.buildingVolume * 100000, 3600)
  IN  Div(Div(airFlowRate * AIR_SPECIFIC_HEAT, 1000) * tempDiff, 1000)

calculateVentilationLoss(params, outdoorTemp) ==
  LET tempDiff     == params.indoorTemp - outdoorTemp
      \* m3/s in 1e-6
      airFlowRate  == Div(params.ventilationRate * params.buildingVolume * 100000, 3600)
      \* kg/s in 1e-6
      massFlowRate == Div(airFlowRate * AIR_DENSITY, 10)
  IN  Div(Div(massFlowRate * AIR_SPECIFIC_HEAT, 1000) * tempDiff, 1000)

calculateSolarGain(params, solarRadiation) ==
  Div(params.windowArea * params.shgc * solarRadiation, 100)

calculateLongwaveRadiation(params, outdoorTemp) ==
  LET indoorTempK  == params.indoorTemp + KELVIN
      outdoorTempK == outdoorTemp + KELVIN
      skyTempK     == outdoorTempK - 1000
  IN  Radiate(params.windowArea, Pow4(indoorTempK) - Pow4(skyTempK))

\* faulty variant: the solar gain added to the balance instead of subtracted
steadyStateAnalysis_plus(params, climate) ==
  LET conductiveLoss    == calculateConductiveLoss(params, climate.temperature)
      ventilationLoss   == calculateVentilationLoss(params, climate.temperature)
      solarGain         == calculateSolarGain(params, climate.solarRadiation)
      longwaveRadiation == calculateLongwaveRadiation(params, climate.temperature)
  IN  [conductiveLoss    |-> conductiveLoss,
       ventilationLoss   |-> ventilationLoss,
       solarGain         |-> solarGain,
       longwaveRadiation |-> longwaveRadiation,
       netLoad           |-> conductiveLoss + ventilationLoss + solarGain + longwaveRadiation]

steadyStateAnalysis(params, climate) ==
  LET conductiveLoss    == calculateConductiveLoss(params, climate.temperature)
      ventilationLoss   == calculateVentilationLoss(params, climate.temperature)
      solarGain         == calculateSolarGain(params, climate.solarRadiation)
      longwaveRadiation == calculateLongwaveRadiation(params, climate.temperature)
  IN  [conductiveLoss    |-> conductiveLoss,
       ventilationLoss   |-> ventilationLoss,
       solarGain         |-> solarGain,
       longwaveRadiation |-> longwaveRadiation,
       netLoad           |-> conductiveLoss + ventilationLoss - solarGain + longwaveRadiation]

\* ------------------------------------------------------------------------
\*  lib/heatingLoad.ts : generateHourlyClimateData (one loop iteration)
\* ------------------------------------------------------------------------

\* default of the baseTemp parameter, -5 degC
LIB_BASE_TEMP == -500

LibTempVariation(hour) == Div(-3 * Cos(Div((hour - 14) * PI, 12)), 100)

LibSolarRadiation(hour) ==
  IF hour >= 6 /\ hour <= 18
  THEN Div(800 * Max(0, Sin(Div((hour - 6) * PI, 12))), 100)
  ELSE 0

\* faulty variant: the temperature follows the calendar day of the call
LibSample_drift(lat, lon, baseTemp, day, hour) ==
  [latitude       |-> lat,
   longitude      |-> lon,
   temperature    |-> baseTemp + 100 * day + LibTempVariation(hour),
   solarRadiation |-> LibSolarRadiation(hour),
   timestamp      |-> [day |-> day, hour |-> hour]]

LibSample(lat, lon, baseTemp, day, hour) ==
  [latitude       |-> lat,
   longitude      |-> lon,
   temperature    |-> baseTemp + LibTempVariation(hour),
   solarRadiation |-> LibSolarRadiation(hour),
   timestamp      |-> [day |-> day, hour |-> hour]]

\* ------------------------------------------------------------------------
\*  lib/api/heatingLoadAPI.ts : climate model
\* ------------------------------------------------------------------------

DAY_OF_YEAR == 15

\* degrees in 1e-2 -> radians in 1e-4
Rad(deg) == Div(deg * PI, 18000)

\* radians in 1e-4 -> degrees in 1e-2
Deg(rad) == Div(rad * 18000, PI)

getDeclination(dayOfYear) ==
  Div(2345 * Sin(Rad(Div(9863 * (284 + dayOfYear), 100))), SCALE)

\* faulty variant: the hour angle is zero one hour after noon
getHourAngle_late(hour) == (hour - 13) * 1500

getHourAngle(hour) == (hour - 12) * 1500

\* faulty variant: the elevation is not cut off at the horizon
getSolarElevation_raw(lat, decl, hourAngle) ==
  LET latRad  == Rad(lat)
      declRad == Rad(decl)
      hrRad   == Rad(hourAngle)
      sinElev == Div(Sin(latRad) * Sin(declRad), SCALE)
                 + Div(Div(Cos(latRad) * Cos(declRad), SCALE) * Cos(hrRad), SCALE)
  IN  Asin(sinElev)

getSolarElevation(lat, decl, hourAngle) ==
  LET latRad  == Rad(lat)
      declRad == Rad(decl)
      hrRad   == Rad(hourAngle)
      sinElev == Div(Sin(latRad) * Sin(declRad), SCALE)
                 + Div(Div(Cos(latRad) * Cos(declRad), SCALE) * Cos(hrRad), SCALE)
  IN  Max(0, Asin(sinElev))

\* 0.7 ** y for y >= 0 in 1e-4; below the fixed-point resolution from y = 30 on
Pow07(y) == IF y > 300000 THEN 0 ELSE Div(SCALE * SCALE, Exp(Div(y * 3567, SCALE)))

\* x ** 0.678 for x >= 1
Pow0678(x) == Exp(Div(678 * Ln(x), 1000))

\* I_sc = 1367 W/m2
I_sc == 1367

\* faulty variant: a constant diffuse term, and only negative elevations guarded
getSolarRadiation_diffuse(solarElevation) ==
  LET airMass       == Div(SCALE * SCALE, Max(1, Sin(solarElevation)))
      transmittance == Pow07(Pow0678(airMass))
      DNI           == Div(I_sc * transmittance, 100)
      GHI           == Div(DNI * Sin(solarElevation), SCALE)
  IN  IF solarElevation < 0 THEN 0 ELSE Max(0, GHI) + Div(I_sc * 100, 10)

getSolarRadiation(solarElevation) ==
  IF solarElevation <= 0 THEN 0
  ELSE LET airMass       == Div(SCALE * SCALE, Sin(solarElevation))
           transmittance == Pow07(Pow0678(airMass))
           DNI           == Div(I_sc * transmittance, 100)
           GHI           == Div(DNI * Sin(solarElevation), SCALE)
       IN  Max(0, GHI)

\* the divisions 1 / Math.sin(solarElevation) one call of getSolarRadiation
\* evaluates: none on the early return, one otherwise
getSolarRadiationDivisions(solarElevation) ==
  IF solarElevation <= 0 THEN <<>>
  ELSE << [elevation |-> solarElevation, divisor |-> Sin(solarElevation)] >>

getOutdoorTemp(hour, latitude) ==
  LET baseTemp == -500 - Div(Abs(latitude - 3700) * 7, 10)
  IN  baseTemp + Div(6 * Sin(Div(Div((hour - 8) * SCALE, 24) * 2 * PI, SCALE)), 100)

getSkyTemp(outdoorTemp) == outdoorTemp - 600

\* faulty variant: the hour field counted from 1
ApiSample_shift(latitude, hour) ==
  LET decl           == getDeclination(DAY_OF_YEAR)
      hourAngle      == getHourAngle(hour)
      solarElevation == getSolarElevation(latitude, decl, hourAngle)
      solarRadiation == getSolarRadiation(solarElevation)
      outdoorTemp    == getOutdoorTemp(hour, latitude)
      skyTemp        == getSkyTemp(outdoorTemp)
  IN  [hour              |-> hour + 1,
       outdoorTemp       |-> outdoorTemp,
       solarRadiation    |-> solarRadiation,
       skyTemp           |-> skyTemp,
       solarElevationDeg |-> Deg(solarElevation)]

ApiSample(latitude, hour) ==
  LET decl           == getDeclination(DAY_OF_YEAR)
      hourAngle      == getHourAngle(hour)
      solarElevation == getSolarElevation(latitude, decl, hourAngle)
      solarRadiation == getSolarRadiation(solarElevation)
      outdoorTemp    == getOutdoorTemp(hour, latitude)
      skyTemp        == getSkyTemp(outdoorTemp)
  IN  [hour              |-> hour,
       outdoorTemp       |-> outdoorTemp,
       solarRadiation    |-> solarRadiation,
       skyTemp           |-> skyTemp,
       solarElevationDeg |-> Deg(solarElevation)]

\* ------------------------------------------------------------------------
\*  lib/api/heatingLoadAPI.ts : runHourlySimulation (one loop iteration)
\* ------------------------------------------------------------------------

API_AIR_DENSITY == 12

SPECIFIC_HEAT_AIR == 1005

ApiHourlyResult(params, climate, hour) ==
  LET deltaT == params.indoorTemp - climate.outdoorTemp
      conductiveLoss ==
          Div(params.wallArea * params.wallUValue * deltaT, 100)
        + Div(params.roofArea * params.roofUValue * deltaT, 100)
        + Div(params.floorArea * params.floorUValue * deltaT, 100)
        + Div(params.windowArea * params.windowUValue * deltaT, 100)
      \* kg/s in 1e-6
      massFlow ==
          Div(API_AIR_DENSITY * params.buildingVolume * params.ventilationRate * 10000, 3600)
      ventilationLoss == Div(Div(massFlow * SPECIFIC_HEAT_AIR, 1000) * deltaT, 1000)
      solarGain == Div(params.windowArea * params.shgc * climate.solarRadiation, 100)
      T_in_K  == params.indoorTemp + KELVIN
      T_sky_K == climate.skyTemp + KELVIN
      longwaveRadiation == Radiate(params.windowArea, Pow4(T_in_K) - Pow4(T_sky_K))
      netLoad == conductiveLoss + ventilationLoss - solarGain + longwaveRadiation
  IN  [hour              |-> hour,
       outdoorTemp       |-> climate.outdoorTemp,
       solarRadiation    |-> climate.solarRadiation,
       conductiveLoss    |-> conductiveLoss,
       ventilationLoss   |-> ventilationLoss,
       solarGain         |-> solarGain,
       longwaveRadiation |-> longwaveRadiation,
       netLoad           |-> netLoad]

RECURSIVE SeqSum(_)
\* hourlyLoads.reduce((a, b) => a + b, 0)
SeqSum(s) == IF s = <<>> THEN 0 ELSE s[1] + SeqSum(Tail(s))

RECURSIVE SeqMax(_)
\* Math.max(...hourlyLoads) of a non-empty array
SeqMax(s) == IF Len(s) = 1 THEN s[1] ELSE Max(s[1], SeqMax(Tail(s)))

\* a / b kept exact: the quotient as numerator and denominator
Quot(a, b) == [num |-> a, den |-> b]

ApiSummary(results) ==
  LET hourlyLoads == [i \in 1..Len(results) |-> results[i].netLoad]
      peakLoad    == SeqMax(hourlyLoads)
  IN  [hourlyResults    |-> results,
       totalHeatingLoad |-> Quot(SeqSum(hourlyLoads), 1000),
       peakLoad         |-> peakLoad,
       averageLoad      |-> Quot(peakLoad, 24)]

\* ------------------------------------------------------------------------
\*  lib/heatingLoad.ts : runHourlySimulation (one loop iteration)
\* ------------------------------------------------------------------------

\* faulty variant: the sample of the previous hour is read
SampleAt_prev(climate, i) == climate[IF i = 0 THEN 1 ELSE i]

\* climateData[i]
SampleAt(climate, i) == climate[i + 1]

LibHourlyResult(params, data, i) ==
  LET analysis == steadyStateAnalysis(params, data)
  IN  [hour              |-> i,
       conductiveLoss    |-> analysis.conductiveLoss,
       ventilationLoss   |-> analysis.ventilationLoss,
       solarGain         |-> analysis.solarGain,
       longwaveRadiation |-> analysis.longwaveRadiation,
       netLoad           |-> Max(0, analysis.netLoad),
       outdoorTemp       |-> data.temperature,
       solarRadiation    |-> data.solarRadiation]

\* faulty variant: the accumulators live outside the function and survive a call
SimLocals_static(left) == left

\* const hourlyResults = []; let totalEnergyWh = 0; let peakLoad = 0;
\* the locals of one activation of runHourlySimulation, whatever an earlier
\* activation left behind
SimLocals(left) == [hourlyResults |-> <<>>, totalEnergyWh |-> 0, peakLoad |-> 0]

\* faulty variant: the last load overwrites the peak
LibPeakLoad_last(peak, netLoad) == netLoad

\* peakLoad = Math.max(peakLoad, result.netLoad)
LibPeakLoad(peak, netLoad) == Max(peak, netLoad)

LibSummary(results, energyWh, peak, n) ==
  [hourlyResults    |-> results,
   totalHeatingLoad |-> Quot(energyWh, 1000),
   peakLoad         |-> peak,
   averageLoad      |-> Quot(energyWh, n)]

\* ------------------------------------------------------------------------
\*  lib/api/heatingLoadAPI.ts : the API client's request body
\*  (emissivity, reflectivity in 1e-2; thermal_capacity in J/K;
\*   thermal_resistance in 1e-3 K/W)
\* ------------------------------------------------------------------------

\* faulty variant: two U-values swapped and a reflectivity of 0.25
convertBuildingParams_mixed(params) ==
  [wall_area          |-> params.wallArea,
   wall_u_value       |-> params.roofUValue,
   roof_area          |-> params.roofArea,
   roof_u_value       |-> params.wallUValue,
   floor_area         |-> params.floorArea,
   floor_u_value      |-> params.floorUValue,
   window_area        |-> params.windowArea,
   window_u_value     |-> params.windowUValue,
   shgc               |-> params.shgc,
   ventilation_rate   |-> params.ventilationRate,
   building_volume    |-> params.buildingVolume,
   indoor_temp        |-> params.indoorTemp,
   emissivity         |-> 85,
   reflectivity       |-> 25,
   thermal_capacity   |-> 10000000,
   thermal_resistance |-> 8]

convertBuildingParams(params) ==
  [wall_area          |-> params.wallArea,
   wall_u_value       |-> params.wallUValue,
   roof_area          |-> params.roofArea,
   roof_u_value       |-> params.roofUValue,
   floor_area         |-> params.floorArea,
   floor_u_value      |-> params.floorUValue,
   window_area        |-> params.windowArea,
   window_u_value     |-> params.windowUValue,
   shgc               |-> params.shgc,
   ventilation_rate   |-> params.ventilationRate,
   building_volume    |-> params.buildingVolume,
   indoor_temp        |-> params.indoorTemp,
   emissivity         |-> 85,
   reflectivity       |-> 15,
   thermal_capacity   |-> 10000000,
   thermal_resistance |-> 8]

\* POST /api/v1/heating-load/transient: JSON.stringify({ building, climate,
\* simulation_options }), and the initial temperature the model is called with
TransientRequest(building, climate, initial) ==
  [endpoint            |-> "transient",
   building            |-> building,
   climate             |-> climate,
   initial_indoor_temp |-> initial]

\* POST /api/v1/heating-load/glasshouse: JSON.stringify({ building, climate }),
\* and the tolerance and budget the solver is called with
GlasshouseRequest(building, climate, tol, maxIter) ==
  [endpoint       |-> "glasshouse",
   building       |-> building,
   climate        |-> climate,
   tolerance      |-> tol,
   max_iterations |-> maxIter]

\* body of POST /api/v1/heating-load/radiation
RadiationRequest(building, climate) ==
  [endpoint |-> "radiation",
   building |-> building,
   climate  |-> climate]

NoRequest == [endpoint |-> "none"]

NoResponse == [status |-> "none"]

\* ------------------------------------------------------------------------
\*  Backend (Python, not part of the sources at hand): transient model and
\*  glasshouse solver as the specification describes them
\*  (conductances in W/K, power in 1e-2 W)
\* ------------------------------------------------------------------------

\* timestep_seconds
TIMESTEP == 3600

\* faulty variant: only the thermal capacity is looked at
InvalidParameter_capacityOnly(building, climate) ==
  building.thermal_capacity <= 0

\* out-of-range or non-physical input, rejected before any numeric work
InvalidParameter(building, climate) ==
  \/ building.wall_area < 0 \/ building.roof_area < 0
  \/ building.floor_area < 0 \/ building.window_area < 0
  \/ building.wall_u_value <= 0 \/ building.roof_u_value <= 0
  \/ building.floor_u_value <= 0 \/ building.window_u_value <= 0
  \/ building.shgc < 0 \/ building.shgc > 100
  \/ building.emissivity < 0 \/ building.emissivity > 100
  \/ building.reflectivity < 0 \/ building.reflectivity > 100
  \/ building.thermal_capacity <= 0 \/ building.thermal_resistance <= 0
  \/ climate.latitude < -9000 \/ climate.latitude > 9000

\* C / dt
StorageConductance(building) == Div(building.thermal_capacity, TIMESTEP)

\* 1 / R
LossConductance(building) == Div(1000, building.thermal_resistance)

\* the heating power that brings the indoor temperature to the setpoint at the
\* end of the step
HeatingPower(building, T_old, T_outdoor, Q_solar) ==
    StorageConductance(building) * (building.indoor_temp - T_old)
  + LossConductance(building) * (building.indoor_temp - T_outdoor)
  - Q_solar

\* C (T - T_old) / dt = (T_outdoor - T) / R + Phi + Q_solar, solved for T
BackwardEuler(building, T_old, T_outdoor, Phi, Q_solar) ==
  Div(  StorageConductance(building) * T_old
      + LossConductance(building) * T_outdoor + Phi + Q_solar,
      StorageConductance(building) + LossConductance(building))

\* faulty variant: every step starts again from the setpoint
TransientStepResult_restart(building, sample, T_old) ==
  LET Q_solar == Div(building.window_area * building.shgc * sample.solarRadiation, 100)
      Phi     == HeatingPower(building, building.indoor_temp, sample.outdoorTemp, Q_solar)
  IN  [indoor_temp |-> BackwardEuler(building, building.indoor_temp,
                                     sample.outdoorTemp, Phi, Q_solar),
       net_load    |-> Phi]

\* one hour of the transient model
TransientStepResult(building, sample, T_old) ==
  LET Q_solar == Div(building.window_area * building.shgc * sample.solarRadiation, 100)
      Phi     == HeatingPower(building, T_old, sample.outdoorTemp, Q_solar)
  IN  [indoor_temp |-> BackwardEuler(building, T_old, sample.outdoorTemp, Phi, Q_solar),
       net_load    |-> Phi]

\* faulty variant: the budget is never looked at
IterationLimitHit_never(iterations, max_iterations) == FALSE

\* the glasshouse iteration has used up max_iterations
IterationLimitHit(iterations, max_iterations) == iterations >= max_iterations

\* surfaces of the radiation network, in the order of the rows of M
SURFACES == <<"glazing", "floor", "sky">>

\* sigma * T^4 for T in 1e-2 degC, in 1e-2 W/m2
BlackbodyPower(T) == Div(Div(Pow4(T + KELVIN), 1000) * 567, 1000)

\* C_i = emissivity_i * sigma * T_i^4, in 1e-2 W/m2
EmissivePower(emissivity, T) == Div(emissivity * BlackbodyPower(T), 100)

\* the emissive powers of the three surfaces
EmissivePowers(building, sample) ==
  << EmissivePower(building.emissivity, sample.outdoorTemp),
     EmissivePower(building.emissivity, building.indoor_temp),
     EmissivePower(100, sample.skyTemp) >>

\* determinant of a 3x3 matrix; for a matrix of tenths, in 1e-3
Det(M) ==
    M[1][1] * (M[2][2] * M[3][3] - M[2][3] * M[3][2])
  - M[1][2] * (M[2][1] * M[3][3] - M[2][3] * M[3][1])
  + M[1][3] * (M[2][1] * M[3][2] - M[2][2] * M[3][1])

\* |det M| below which M counts as near-singular, in 1e-3
SINGULAR_TOLERANCE == 10

\* faulty variant: only an exactly singular matrix is refused
NearSingular_exact(M) == Det(M) = 0

\* M is singular or near-singular
NearSingular(M) == Abs(Det(M)) < SINGULAR_TOLERANCE

\* M with column k replaced by the right-hand side C
ReplaceColumn(M, k, C) ==
  [i \in 1..3 |-> [j \in 1..3 |-> IF j = k THEN C[i] ELSE M[i][j]]]

\* the solution J of M.J = C, in 1e-2 W/m2 (direct solve of the 3x3 system)
Radiosities(M, C) ==
  [k \in 1..3 |-> Div(10 * Det(ReplaceColumn(M, k, C)), Det(M))]

\* net radiative flux at surface i: J_i - sum_j F_ij J_j
RadiativeFlux(M, J, i) ==
  J[i] - Div(M[i][1] * J[1] + M[i][2] * J[2] + M[i][3] * J[3], 10)

\* the temperature (whole degC, in 1e-2 degC) whose emissive power balances
\* the flux leaving the floor: the inversion of the T^4 relation
FloorTemperature(emissivity, J_floor) ==
  LET candidates == { 100 * t : t \in -100..100 }
      below == { T \in candidates : EmissivePower(emissivity, T) <= J_floor }
  IN  IF below = {} THEN -10000
      ELSE CHOOSE T \in below : \A U \in below : U <= T

\* what solveRadiation returns for a matrix it can solve
RadiationResult(building, sample, M) ==
  LET J == Radiosities(M, EmissivePowers(building, sample))
  IN  [status            |-> "ok",
       radiative_flux    |-> RadiativeFlux(M, J, 2),
       floor_temperature |-> FloorTemperature(building.emissivity, J[2]),
       view_factors      |-> M,
       radiosity         |-> J]

\* ------------------------------------------------------------------------
\*  Inputs
\* ------------------------------------------------------------------------

\* longest climate array a caller supplies by hand (besides whole days)
MaxSupplied == 2

\* how many times one caller runs the pipeline with the same arguments
MaxCalls == 2

HOURS == 24

Engines == {"lib", "api"}

\* useState default of the page (Seoul apartment)
DefaultParams ==
  [wallArea |-> 150, wallUValue |-> 35, roofArea |-> 100, roofUValue |-> 25,
   floorArea |-> 100, floorUValue |-> 30, windowArea |-> 30, windowUValue |-> 180,
   shgc |-> 60, ventilationRate |-> 5, buildingVolume |-> 300, indoorTemp |-> 2000]

\* what BuildingInputForm.handleChange can hand to the page: any parsed number
Envelopes ==
  { DefaultParams,
    [DefaultParams EXCEPT !.windowArea = 60, !.shgc = 90],
    [DefaultParams EXCEPT !.indoorTemp = -1000],
    [DefaultParams EXCEPT !.wallArea = -150],
    [DefaultParams EXCEPT !.shgc = 150, !.windowUValue = 0] }

\* the BuildingEnvelope invariants of the data model
ValidEnvelope(p) ==
  /\ p.wallArea >= 0 /\ p.roofArea >= 0 /\ p.floorArea >= 0 /\ p.windowArea >= 0
  /\ p.wallUValue > 0 /\ p.roofUValue > 0 /\ p.floorUValue > 0 /\ p.windowUValue > 0
  /\ p.shgc >= 0 /\ p.shgc <= 100
  /\ p.ventilationRate >= 0 /\ p.buildingVolume > 0

\* Seoul, mid and high latitudes of both hemispheres, and one where the sun
\* grazes the horizon at noon of the simulated day (1e-2 degree)
Latitudes == {3757, 0, 8000, -2100, -8000, 6870}

Longitudes == {12698, -7400}

\* the calendar day on which the generator is called
Days == {0, 1}

SuppliedTemps == {-1000, 2000, 3500}

SuppliedSolar == {0, 80000}

SuppliedSample(e, t, s) ==
  IF e = "lib"
  THEN [latitude |-> 3757, longitude |-> 12698, temperature |-> t,
        solarRadiation |-> s, timestamp |-> [day |-> 0, hour |-> 0]]
  ELSE [hour |-> 0, outdoorTemp |-> t, solarRadiation |-> s,
        skyTemp |-> getSkyTemp(t), solarElevationDeg |-> IF s > 0 THEN 3000 ELSE 0]

SuppliedSamples(e) == { SuppliedSample(e, t, s) : t \in SuppliedTemps, s \in SuppliedSolar }

ShortClimates(e) ==
  UNION { [1..n -> SuppliedSamples(e)] : n \in 0..MaxSupplied }

\* a whole day that repeats a short pattern
DayOf(pattern) == [h \in 1..HOURS |-> pattern[((h - 1) % Len(pattern)) + 1]]

SuppliedClimates(e) ==
  ShortClimates(e) \cup { DayOf(c) : c \in ShortClimates(e) \ {<<>>} }

\* latitudes posted to the backend
BackendLatitudes == {3757, 8000}

\* thermal fields a caller other than the API client may post
ThermalCapacities == {10000000, 0, -10000000}

ThermalResistances == {8, 0, -8}

\* initial_indoor_temp?: absent, or one temperature
InitialTemps == {<<>>, <<1500>>, <<2500>>}

\* tolerance of the glasshouse solver (1e-2 K)
Tolerances == {10, 500}

\* largest max_iterations of the glasshouse solver
MaxIterations == 3

\* change of one node's temperature in one iteration (1e-2 K): the solve of the
\* linearized balances is left open
GlassChanges == {0, 300}

\* matrices M of the radiation network, entries in tenths: two well-conditioned
\* ones, one whose floor row is zero (the floor sees nothing), one with two
\* equal rows, and one with tiny entries (determinant 0.002)
ViewFactorMatrices ==
  { << <<10, -1, -1>>, <<-1, 10, -1>>, <<-1, -1, 10>> >>,
    << <<10,  0,  0>>, << 0, 10,  0>>, << 0,  0, 10>> >>,
    << <<10, -1, -1>>, << 0,  0,  0>>, <<-1, -1, 10>> >>,
    << << 5,  5,  0>>, << 5,  5,  0>>, << 0,  0, 10>> >>,
    << << 1,  0,  0>>, << 0,  1,  0>>, << 0,  0,  2>> >> }

NoResult == [hourlyResults |-> <<>>, totalHeatingLoad |-> Quot(0, 0),
             peakLoad |-> 0, averageLoad |-> Quot(0, 0)]

\* ------------------------------------------------------------------------
\*  State
\* ------------------------------------------------------------------------

VARIABLES
  engine,         \* which of the two engines runs
  source,         \* "generated": climate from the engine's generator; "supplied"
  params,         \* BuildingParams
  latitude, longitude,
  today,          \* new Date() of the lib generator
  pc,             \* "generate", "simulate", "done", "threw"
  hour,           \* loop variable of the running loop
  climateData,    \* the climate array
  hourlyResults,  \* results pushed so far
  totalEnergyWh,  \* accumulator of lib runHourlySimulation
  peakLoad,       \* accumulator of lib runHourlySimulation
  result,         \* the returned SimulationResult
  divisions,      \* the divisions by Math.sin evaluated by the running generator call
  calls,          \* number of the current call of the pipeline
  previousClimate,\* the climate array of the call before
  previousResult, \* the SimulationResult of the call before
  caller,         \* who posted the request: "client" (the API client) or "other"
  request,        \* the request body posted to the backend
  thermalState,   \* ThermalState of the transient model: <<>> or <<indoor temperature>>
  hourly_temps,   \* transient model: indoor temperature after each hour
  hourly_loads,   \* transient model: heating power of each hour
  glass,          \* glasshouse solver: the current iterate
  iterations,     \* glasshouse solver: iterations done
  maxChange,      \* glasshouse solver: <<>> or <<largest change of the last iteration>>
  view_factors,   \* radiation network: <<>> or <<the view-factor matrix M>>
  response,       \* what the backend answers
  location,          \* page state: { latitude, longitude }
  buildingParams,    \* page state: the envelope of the form
  simulationResults, \* page state: <<>> (null) or <<the displayed SimulationResult>>
  useBackend,        \* page state: the backend engine is selected
  backendAvailable,  \* page state: the health check found the backend
  isSimulating,      \* page state: a run is going on (the Run button is disabled)
  errorMessage,      \* page state: <<>> (null) or <<the message>>
  health,            \* the health-check effect: "idle" (not mounted), "pending",
                     \* "setting" (between its two setters), "done", "rejected"
  healthResponse,    \* what GET /health came to: "none", "ok", "notOk", "failed"
  inFlight,          \* the handleSimulate activations awaiting calculateHeatingLoad
  runs,              \* number of handleSimulate activations started
  requested,         \* the activations that posted a request to the backend
  lastRun            \* the activation that finished last, and the path it took

vars == <<engine, source, params, latitude, longitude, today, pc, hour,
          climateData, hourlyResults, totalEnergyWh, peakLoad, result,
          divisions, calls, previousClimate, previousResult,
          caller, request, thermalState, hourly_temps, hourly_loads,
          glass, iterations, maxChange, view_factors, response,
          location, buildingParams, simulationResults, useBackend,
          backendAvailable, isSimulating, errorMessage, health, healthResponse,
          inFlight, runs, requested, lastRun>>

\* the state handleSimulate reads and never sets
frame == <<location, buildingParams, useBackend, backendAvailable>>

\* the state of the page and of the calls it has started
page == <<frame, simulationResults, isSimulating, errorMessage, health,
          healthResponse, inFlight, runs, requested, lastRun>>

\* useState<Location>: Seoul, in 1e-2 degrees
InitialLocation == [latitude |-> 3757, longitude |-> 12698]

NoRun == [run |-> 0, path |-> "none"]

\* the page as its first render has it
PageIdle ==
  /\ location = InitialLocation
  /\ buildingParams = DefaultParams
  /\ simulationResults = <<>>
  /\ useBackend = FALSE
  /\ backendAvailable = FALSE
  /\ isSimulating = FALSE
  /\ errorMessage = <<>>
  /\ health = "idle"
  /\ healthResponse = "none"
  /\ inFlight = {}
  /\ runs = 0
  /\ requested = {}
  /\ lastRun = NoRun

backend == <<caller, request, thermalState, hourly_temps, hourly_loads,
             glass, iterations, maxChange, view_factors, response>>

\* no request has reached the backend
BackendIdle ==
  /\ caller = "none"
  /\ request = NoRequest
  /\ thermalState = <<>>
  /\ hourly_temps = <<>>
  /\ hourly_loads = <<>>
  /\ glass = <<>>
  /\ iterations = 0
  /\ maxChange = <<>>
  /\ view_factors = <<>>
  /\ response = NoResponse

Init ==
  /\ engine \in Engines
  /\ params \in Envelopes
  /\ \/ /\ source = "generated"
        /\ latitude \in Latitudes
        /\ longitude \in Longitudes
        /\ today \in (IF engine = "lib" THEN Days ELSE {0})
        /\ climateData = <<>>
        /\ pc = "generate"
     \/ /\ source = "supplied"
        /\ latitude = 3757
        /\ longitude = 12698
        /\ today = 0
        /\ climateData \in SuppliedClimates(engine)
        /\ pc = "simulate"
  /\ hour = 0
  /\ hourlyResults = <<>>
  /\ totalEnergyWh = 0
  /\ peakLoad = 0
  /\ result = NoResult
  /\ divisions = <<>>
  /\ calls = 1
  /\ previousClimate = <<>>
  /\ previousResult = NoResult
  /\ BackendIdle
  /\ PageIdle

\* the arguments of the running call
inputs == <<engine, source, params, latitude, longitude, today>>

\* what the calls before left to look at
history == <<calls, previousClimate, previousResult>>

locals == <<hourlyResults, totalEnergyWh, peakLoad>>

\* lib generateHourlyClimateData: one iteration of the for loop
LibGenerateStep ==
  /\ engine = "lib" /\ pc = "generate" /\ hour < HOURS
  /\ climateData' = Append(climateData,
                           LibSample(latitude, longitude, LIB_BASE_TEMP, today, hour))
  /\ hour' = hour + 1
  /\ UNCHANGED <<page, backend, inputs, history, pc, locals, result, divisions>>

\* api generateHourlyClimateData: one iteration of the for loop
ApiGenerateStep ==
  /\ engine = "api" /\ pc = "generate" /\ hour < HOURS
  /\ climateData' = Append(climateData, ApiSample(latitude, hour))
  /\ divisions' = divisions \o getSolarRadiationDivisions(
                     getSolarElevation(latitude, getDeclination(DAY_OF_YEAR),
                                       getHourAngle(hour)))
  /\ hour' = hour + 1
  /\ UNCHANGED <<page, backend, inputs, history, pc, locals, result>>

\* the generator returns and runHourlySimulation is entered
GenerateReturn ==
  /\ pc = "generate" /\ hour = HOURS
  /\ pc' = "simulate"
  /\ hour' = 0
  /\ LET fresh == SimLocals([hourlyResults |-> hourlyResults,
                             totalEnergyWh |-> totalEnergyWh, peakLoad |-> peakLoad])
     IN  /\ hourlyResults' = fresh.hourlyResults
         /\ totalEnergyWh' = fresh.totalEnergyWh
         /\ peakLoad' = fresh.peakLoad
  /\ UNCHANGED <<page, backend, inputs, history, climateData, result, divisions>>

\* lib runHourlySimulation: one iteration of the for loop
LibSimStep ==
  /\ engine = "lib" /\ pc = "simulate" /\ hour < Len(climateData)
  /\ LET r == LibHourlyResult(params, SampleAt(climateData, hour), hour)
     IN  /\ hourlyResults' = Append(hourlyResults, r)
         /\ totalEnergyWh' = totalEnergyWh + r.netLoad
         /\ peakLoad' = LibPeakLoad(peakLoad, r.netLoad)
  /\ hour' = hour + 1
  /\ UNCHANGED <<page, backend, inputs, history, pc, climateData, result, divisions>>

\* lib runHourlySimulation: the loop is over, the summary is returned
LibSimReturn ==
  /\ engine = "lib" /\ pc = "simulate" /\ hour = Len(climateData)
  /\ result' = LibSummary(hourlyResults, totalEnergyWh, peakLoad, Len(climateData))
  /\ pc' = "done"
  /\ UNCHANGED <<page, backend, inputs, history, hour, climateData, locals, divisions>>

\* api runHourlySimulation: one iteration of the for loop
ApiSimStep ==
  /\ engine = "api" /\ pc = "simulate" /\ hour < HOURS /\ hour < Len(climateData)
  /\ hourlyResults' = Append(hourlyResults,
                             ApiHourlyResult(params, climateData[hour + 1], hour))
  /\ hour' = hour + 1
  /\ UNCHANGED <<page, backend, inputs, history, pc, climateData, totalEnergyWh, peakLoad, result,
                 divisions>>

\* api runHourlySimulation: climateData[hour] is undefined, reading a field throws
ApiSimThrow ==
  /\ engine = "api" /\ pc = "simulate" /\ hour < HOURS /\ hour >= Len(climateData)
  /\ pc' = "threw"
  /\ UNCHANGED <<page, backend, inputs, history, hour, climateData, locals, result, divisions>>

\* api runHourlySimulation: the loop is over, the summary is returned
ApiSimReturn ==
  /\ engine = "api" /\ pc = "simulate" /\ hour = HOURS
  /\ result' = ApiSummary(hourlyResults)
  /\ pc' = "done"
  /\ UNCHANGED <<page, backend, inputs, history, hour, climateData, locals, divisions>>

\* the caller runs the pipeline once more with the same arguments, now or on a
\* later day: the generator is called again, or the supplied array is reused
CallAgain ==
  /\ pc = "done" /\ calls < MaxCalls
  /\ calls' = calls + 1
  /\ previousClimate' = climateData
  /\ previousResult' = result
  /\ hour' = 0
  /\ divisions' = <<>>
  /\ today' \in { d \in Days : d >= today /\ (engine = "api" => d = today) }
  /\ IF source = "generated"
     THEN /\ climateData' = <<>>
          /\ pc' = "generate"
          /\ UNCHANGED locals
     ELSE /\ pc' = "simulate"
          /\ LET fresh == SimLocals([hourlyResults |-> hourlyResults,
                                     totalEnergyWh |-> totalEnergyWh,
                                     peakLoad |-> peakLoad])
             IN  /\ hourlyResults' = fresh.hourlyResults
                 /\ totalEnergyWh' = fresh.totalEnergyWh
                 /\ peakLoad' = fresh.peakLoad
          /\ UNCHANGED climateData
  /\ UNCHANGED <<page, backend, engine, source, params, latitude, longitude, result>>

Next ==
  \/ LibGenerateStep
  \/ ApiGenerateStep
  \/ GenerateReturn
  \/ LibSimStep
  \/ LibSimReturn
  \/ ApiSimStep
  \/ ApiSimThrow
  \/ ApiSimReturn
  \/ CallAgain

Spec == Init /\ [][Next]_vars

\* ------------------------------------------------------------------------
\*  Requests to the backend
\* ------------------------------------------------------------------------

BackendInit ==
  /\ engine = "backend"
  /\ source = "backend"
  /\ params \in Envelopes
  /\ latitude \in BackendLatitudes
  /\ longitude = 12698
  /\ today = 0
  /\ pc = "request"
  /\ hour = 0
  /\ climateData = <<>>
  /\ hourlyResults = <<>>
  /\ totalEnergyWh = 0
  /\ peakLoad = 0
  /\ result = NoResult
  /\ divisions = <<>>
  /\ calls = 1
  /\ previousClimate = <<>>
  /\ previousResult = NoResult
  /\ BackendIdle
  /\ PageIdle

pipeline == <<engine, source, params, latitude, longitude, today, climateData,
              locals, result, divisions, history>>

solver == <<thermalState, hourly_temps, hourly_loads, glass, iterations, maxChange,
            view_factors>>

\* climate: ClimateParams of the page
ClimateParams == [latitude |-> latitude, longitude |-> longitude,
                  day_of_year |-> DAY_OF_YEAR]

\* the API client posts the body it builds to the transient endpoint
calculateTransient ==
  /\ pc = "request"
  /\ request' = TransientRequest(convertBuildingParams(params), ClimateParams, <<>>)
  /\ caller' = "client"
  /\ pc' = "received"
  /\ UNCHANGED <<page, pipeline, hour, solver, response>>

\* the API client posts the body it builds to the glasshouse endpoint
calculateGlasshouse ==
  /\ pc = "request"
  /\ \E tol \in Tolerances, maxIter \in 0..MaxIterations :
       request' = GlasshouseRequest(convertBuildingParams(params), ClimateParams,
                                    tol, maxIter)
  /\ caller' = "client"
  /\ pc' = "received"
  /\ UNCHANGED <<page, pipeline, hour, solver, response>>

\* the API client posts the body it builds to the radiation endpoint
calculateRadiation ==
  /\ pc = "request"
  /\ request' = RadiationRequest(convertBuildingParams(params), ClimateParams)
  /\ caller' = "client"
  /\ pc' = "received"
  /\ UNCHANGED <<page, pipeline, hour, solver, response>>

\* another caller posts a body of its own to the transient endpoint
PostTransient ==
  /\ pc = "request"
  /\ \E c \in ThermalCapacities, r \in ThermalResistances, initial \in InitialTemps :
       request' = TransientRequest(
                    [convertBuildingParams(params) EXCEPT !.thermal_capacity = c,
                                                          !.thermal_resistance = r],
                    ClimateParams, initial)
  /\ caller' = "other"
  /\ pc' = "received"
  /\ UNCHANGED <<page, pipeline, hour, solver, response>>

\* the boundary rejects the request before any numeric work
RejectInvalid ==
  /\ pc = "received"
  /\ InvalidParameter(request.building, request.climate)
  /\ response' = [status |-> "InvalidParameter"]
  /\ pc' = "rejected"
  /\ UNCHANGED <<page, pipeline, hour, caller, request, solver>>

\* the transient model creates its state: the initial temperature, or the setpoint
TransientStart ==
  /\ pc = "received" /\ request.endpoint = "transient"
  /\ ~ InvalidParameter(request.building, request.climate)
  /\ thermalState' = IF request.initial_indoor_temp = <<>>
                     THEN << request.building.indoor_temp >>
                     ELSE request.initial_indoor_temp
  /\ hour' = 0
  /\ pc' = "stepping"
  /\ UNCHANGED <<page, pipeline, caller, request, hourly_temps, hourly_loads,
                 glass, iterations, maxChange, view_factors, response>>

\* one hour of the transient model
TransientStep ==
  /\ pc = "stepping" /\ hour < HOURS
  /\ LET r == TransientStepResult(request.building,
                                  ApiSample(request.climate.latitude, hour),
                                  thermalState[1])
     IN  /\ thermalState' = << r.indoor_temp >>
         /\ hourly_temps' = Append(hourly_temps, r.indoor_temp)
         /\ hourly_loads' = Append(hourly_loads, r.net_load)
  /\ hour' = hour + 1
  /\ UNCHANGED <<page, pipeline, pc, caller, request, glass, iterations, maxChange,
                 view_factors, response>>

\* the transient model returns after hour 23
TransientReturn ==
  /\ pc = "stepping" /\ hour = HOURS
  /\ response' = [status            |-> "ok",
                  hourly_temps      |-> hourly_temps,
                  hourly_loads      |-> hourly_loads,
                  final_temperature |-> thermalState[1]]
  /\ pc' = "answered"
  /\ UNCHANGED <<page, pipeline, hour, caller, request, solver>>

\* the largest change of the last iteration is below the tolerance
Converged == maxChange # <<>> /\ maxChange[1] < request.tolerance

\* the glasshouse solver starts with all three nodes at the outdoor temperature
GlassStart ==
  /\ pc = "received" /\ request.endpoint = "glasshouse"
  /\ ~ InvalidParameter(request.building, request.climate)
  /\ LET T_outdoor == ApiSample(request.climate.latitude, 12).outdoorTemp
     IN  glass' = [interior_temp |-> T_outdoor, glass_temp |-> T_outdoor,
                   collector_temp |-> T_outdoor]
  /\ iterations' = 0
  /\ maxChange' = <<>>
  /\ pc' = "iterating"
  /\ UNCHANGED <<page, pipeline, hour, caller, request, thermalState, hourly_temps,
                 hourly_loads, view_factors, response>>

\* one substitution: new temperatures of the three nodes
GlassIterate ==
  /\ pc = "iterating"
  /\ ~ Converged
  /\ ~ IterationLimitHit(iterations, request.max_iterations)
  /\ \E di \in GlassChanges, dg \in GlassChanges, dc \in GlassChanges :
       /\ glass' = [interior_temp  |-> glass.interior_temp + di,
                    glass_temp     |-> glass.glass_temp + dg,
                    collector_temp |-> glass.collector_temp + dc]
       /\ maxChange' = << Max(Abs(di), Max(Abs(dg), Abs(dc))) >>
  /\ iterations' = iterations + 1
  /\ UNCHANGED <<page, pipeline, pc, hour, caller, request, thermalState, hourly_temps,
                 hourly_loads, view_factors, response>>

\* the solver stops: converged, or out of budget with the last iterate
GlassReturn ==
  /\ pc = "iterating"
  /\ Converged \/ IterationLimitHit(iterations, request.max_iterations)
  /\ response' = [status         |-> IF Converged THEN "ok" ELSE "NonConvergence",
                  interior_temp  |-> glass.interior_temp,
                  glass_temp     |-> glass.glass_temp,
                  collector_temp |-> glass.collector_temp,
                  iterations     |-> iterations]
  /\ pc' = "answered"
  /\ UNCHANGED <<page, pipeline, hour, caller, request, solver>>

\* the radiation network builds the view-factor matrix of its surface set
RadiationStart ==
  /\ pc = "received" /\ request.endpoint = "radiation"
  /\ ~ InvalidParameter(request.building, request.climate)
  /\ \E M \in ViewFactorMatrices : view_factors' = << M >>
  /\ pc' = "solving"
  /\ UNCHANGED <<page, pipeline, hour, caller, request, thermalState, hourly_temps,
                 hourly_loads, glass, iterations, maxChange, response>>

\* the solve refuses a singular or near-singular matrix
RadiationFail ==
  /\ pc = "solving"
  /\ NearSingular(view_factors[1])
  /\ response' = [status |-> "NumericInstability"]
  /\ pc' = "failed"
  /\ UNCHANGED <<page, pipeline, hour, caller, request, solver>>

\* the solve of M.J = C, the flux at the floor and the floor temperature
RadiationSolve ==
  /\ pc = "solving"
  /\ ~ NearSingular(view_factors[1])
  /\ response' = RadiationResult(request.building,
                                 ApiSample(request.climate.latitude, 12),
                                 view_factors[1])
  /\ pc' = "answered"
  /\ UNCHANGED <<page, pipeline, hour, caller, request, solver>>

BackendNext ==
  \/ calculateRadiation
  \/ RadiationStart
  \/ RadiationFail
  \/ RadiationSolve
  \/ calculateTransient
  \/ calculateGlasshouse
  \/ PostTransient
  \/ RejectInvalid
  \/ TransientStart
  \/ TransientStep
  \/ TransientReturn
  \/ GlassStart
  \/ GlassIterate
  \/ GlassReturn

BackendSpec == BackendInit /\ [][BackendNext]_vars

\* ------------------------------------------------------------------------
\*  app/layout.tsx : the page
\*  (a closure c is the state one render hands to the handleSimulate it creates)
\* ------------------------------------------------------------------------

\* handleSimulate activations the model follows
MaxRuns == 3

\* envelopes BuildingInputForm hands to setBuildingParams
PageEnvelopes == { DefaultParams, [DefaultParams EXCEPT !.windowArea = 60, !.shgc = 90] }

\* locations the map hands to handleLocationChange
PageLocations == { InitialLocation, [latitude |-> 6870, longitude |-> 2500] }

\* generateHourlyClimateData(latitude, longitude) of lib/heatingLoad.ts
LibClimate(lat, lon, day) ==
  [h \in 1..HOURS |-> LibSample(lat, lon, LIB_BASE_TEMP, day, h - 1)]

RECURSIVE LibSimLoop(_, _, _, _)
\* the for loop of lib runHourlySimulation from index i on, and its return
LibSimLoop(p, data, i, l) ==
  IF i = Len(data)
  THEN LibSummary(l.hourlyResults, l.totalEnergyWh, l.peakLoad, Len(data))
  ELSE LET r == LibHourlyResult(p, SampleAt(data, i), i)
       IN  LibSimLoop(p, data, i + 1,
                      [hourlyResults |-> Append(l.hourlyResults, r),
                       totalEnergyWh |-> l.totalEnergyWh + r.netLoad,
                       peakLoad      |-> LibPeakLoad(l.peakLoad, r.netLoad)])

\* runHourlySimulation(buildingParams, generateHourlyClimateData(latitude, longitude))
LocalEngine(p, loc) ==
  LibSimLoop(p, LibClimate(loc.latitude, loc.longitude, today), 0, SimLocals(<<>>))

\* one element of hourly_results of a FullSimulationResponse
BackendHour(h, load) ==
  [hour |-> h, outdoor_temp |-> -500, solar_radiation |-> 0,
   conductive_loss |-> load, ventilation_loss |-> 0, solar_gain |-> 0,
   longwave_radiation |-> 0, net_load |-> load]

\* JSON bodies the full-simulation endpoint can answer with: two well-formed
\* ones and one without hourly_results (a number that is shown as a quotient
\* by the client-side engines is written n / 1)
BackendBodies ==
  { [hourly_results |-> << BackendHour(0, 300000) >>,
     summary |-> [total_heating_load_kwh |-> Quot(3, 1), peak_load_w |-> 300000,
                  average_load_w |-> Quot(300000, 1)]],
    [hourly_results |-> << BackendHour(0, 100000), BackendHour(1, 200000) >>,
     summary |-> [total_heating_load_kwh |-> Quot(3, 1), peak_load_w |-> 200000,
                  average_load_w |-> Quot(150000, 1)]],
    [summary |-> [total_heating_load_kwh |-> Quot(0, 1), peak_load_w |-> 0,
                  average_load_w |-> Quot(0, 1)]] }

\* what the fetch of calculateHeatingLoad can come to: a network error, or a
\* response with a status and a body
FetchOutcomes ==
  { [kind |-> "network", status |-> 0, body |-> <<>>],
    [kind |-> "response", status |-> 500, body |-> <<>>] }
  \cup { [kind |-> "response", status |-> 200, body |-> << b >>] : b \in BackendBodies }

\* calculateHeatingLoad: the promise rejects with an Error, or resolves with the body
calculateHeatingLoad(o) ==
  IF o.kind = "network"
  THEN [threw |-> TRUE, message |-> "Failed to fetch", value |-> <<>>]
  ELSE IF o.status < 200 \/ o.status > 299
  THEN [threw |-> TRUE, message |-> "API error", value |-> <<>>]
  ELSE [threw |-> FALSE, message |-> "", value |-> o.body]

\* backendResults.hourly_results.map(...) and the three summary fields
convertBackendResultsToLocal(backendResults) ==
  [hourlyResults |->
     [i \in DOMAIN backendResults.hourly_results |->
        LET r == backendResults.hourly_results[i]
        IN  [hour              |-> r.hour,
             outdoorTemp       |-> r.outdoor_temp,
             solarRadiation    |-> r.solar_radiation,
             conductiveLoss    |-> r.conductive_loss,
             ventilationLoss   |-> r.ventilation_loss,
             solarGain         |-> r.solar_gain,
             longwaveRadiation |-> r.longwave_radiation,
             netLoad           |-> r.net_load]],
   totalHeatingLoad |-> backendResults.summary.total_heating_load_kwh,
   peakLoad         |-> backendResults.summary.peak_load_w,
   averageLoad      |-> backendResults.summary.average_load_w]

\* the backend branch of the try block: the results to display, or the message
\* of the Error that reaches the catch block
BackendAttempt(o) ==
  LET got == calculateHeatingLoad(o)
  IN  IF got.threw
      THEN [error |-> << got.message >>, results |-> <<>>]
      ELSE IF "hourly_results" \notin DOMAIN got.value[1]
      THEN [error |-> << "Cannot read properties of undefined" >>, results |-> <<>>]
      ELSE [error |-> <<>>, results |-> << convertBackendResultsToLocal(got.value[1]) >>]

\* faulty variant: the backend branch is taken whatever the closure holds
TakesBackendPath_always(c) == TRUE

\* if (useBackend && backendAvailable)
TakesBackendPath(c) == c.useBackend /\ c.backendAvailable

\* faulty variant: the catch block leaves the displayed results alone
CatchResults_none(c, shown) == shown

\* the catch block: if (useBackend) the local engine runs on the closure's
\* envelope and location
CatchResults(c, shown) ==
  IF c.useBackend THEN << LocalEngine(c.buildingParams, c.location) >> ELSE shown

\* faulty variant: no finally block
Finally_missing(simulating) == simulating

\* finally { setIsSimulating(false) }
Finally(simulating) == FALSE

\* faulty variant: the button is always enabled
RunEnabled_always(simulating) == TRUE

\* disabled={isSimulating}
RunEnabled(simulating) == ~ simulating

\* faulty variant: the checkbox is always rendered
ToggleRendered_always(available) == TRUE

\* {backendAvailable && <input type="checkbox" .../>}
ToggleRendered(available) == available

\* faulty variant: a failed request rejects the promise
checkBackendHealth_rejects(o) ==
  IF o = "failed" THEN [settled |-> "rejected", value |-> FALSE]
  ELSE [settled |-> "resolved", value |-> (o = "ok")]

\* checkBackendHealth: response.ok, or false from the catch block
checkBackendHealth(o) == [settled |-> "resolved", value |-> (o = "ok")]

\* what GET /health can come to: an OK status, another status, no response
HealthOutcomes == {"ok", "notOk", "failed"}

\* the engines and the backend endpoints of the other specifications stay idle
idle == <<pipeline, pc, hour, backend>>

PageInit ==
  /\ engine = "lib"
  /\ source = "generated"
  /\ params = DefaultParams
  /\ latitude = InitialLocation.latitude
  /\ longitude = InitialLocation.longitude
  /\ today = 0
  /\ pc = "page"
  /\ hour = 0
  /\ climateData = <<>>
  /\ hourlyResults = <<>>
  /\ totalEnergyWh = 0
  /\ peakLoad = 0
  /\ result = NoResult
  /\ divisions = <<>>
  /\ calls = 1
  /\ previousClimate = <<>>
  /\ previousResult = NoResult
  /\ BackendIdle
  /\ PageIdle

\* the state of the current render, as the handleSimulate it creates sees it
Closure ==
  [useBackend |-> useBackend, backendAvailable |-> backendAvailable,
   buildingParams |-> buildingParams, location |-> location]

\* no callback is in the middle of its synchronous part
Settled == health \in {"pending", "done", "rejected"}

\* one activation of handleSimulate up to its first await, or to its end when
\* it takes the local branch, which has no await
handleSimulate(c) ==
  /\ runs' = runs + 1
  /\ errorMessage' = <<>>
  /\ IF TakesBackendPath(c)
     THEN /\ isSimulating' = TRUE
          /\ inFlight' = inFlight \cup { [run |-> runs + 1, closure |-> c] }
          /\ requested' = requested \cup { runs + 1 }
          /\ UNCHANGED <<simulationResults, lastRun>>
     ELSE /\ simulationResults' = << LocalEngine(c.buildingParams, c.location) >>
          /\ isSimulating' = Finally(TRUE)
          /\ lastRun' = [run |-> runs + 1, path |-> "local", closure |-> c]
          /\ UNCHANGED <<inFlight, requested>>

\* the page mounts: the health-check effect starts its request, then the
\* initial-simulation effect calls the handleSimulate of the first render
Mount ==
  /\ health = "idle"
  /\ health' = "pending"
  /\ handleSimulate(Closure)
  /\ UNCHANGED <<idle, frame, healthResponse>>

\* GET /health settles and the promise of checkBackendHealth with it; the
\* .then callback calls setBackendAvailable(available)
HealthSettles ==
  /\ health = "pending"
  /\ \E o \in HealthOutcomes :
       /\ healthResponse' = o
       /\ IF checkBackendHealth(o).settled = "resolved"
          THEN /\ backendAvailable' = checkBackendHealth(o).value
               /\ health' = "setting"
          ELSE /\ health' = "rejected"
               /\ UNCHANGED backendAvailable
  /\ UNCHANGED <<idle, location, buildingParams, useBackend, simulationResults,
                 isSimulating, errorMessage, inFlight, runs, requested, lastRun>>

\* the .then callback goes on: setUseBackend(available)
HealthSelects ==
  /\ health = "setting"
  /\ useBackend' = checkBackendHealth(healthResponse).value
  /\ health' = "done"
  /\ UNCHANGED <<idle, location, buildingParams, backendAvailable, simulationResults,
                 isSimulating, errorMessage, healthResponse, inFlight, runs,
                 requested, lastRun>>

\* the user clicks the engine checkbox
Toggle ==
  /\ Settled
  /\ ToggleRendered(backendAvailable)
  /\ useBackend' = ~ useBackend
  /\ UNCHANGED <<idle, location, buildingParams, backendAvailable, simulationResults,
                 isSimulating, errorMessage, health, healthResponse, inFlight, runs,
                 requested, lastRun>>

\* the user edits the form: setBuildingParams
ChangeParams ==
  /\ Settled
  /\ buildingParams' \in PageEnvelopes \ {buildingParams}
  /\ UNCHANGED <<idle, location, useBackend, backendAvailable, simulationResults,
                 isSimulating, errorMessage, health, healthResponse, inFlight, runs,
                 requested, lastRun>>

\* the user picks a place on the map: handleLocationChange
ChangeLocation ==
  /\ Settled
  /\ location' \in PageLocations \ {location}
  /\ UNCHANGED <<idle, buildingParams, useBackend, backendAvailable, simulationResults,
                 isSimulating, errorMessage, health, healthResponse, inFlight, runs,
                 requested, lastRun>>

\* the user clicks Run Simulation
ClickRun ==
  /\ Settled
  /\ RunEnabled(isSimulating)
  /\ runs < MaxRuns
  /\ handleSimulate(Closure)
  /\ UNCHANGED <<idle, frame, health, healthResponse>>

\* the awaited backend call resolves with a body the conversion accepts
BackendAnswers ==
  /\ Settled
  /\ \E a \in inFlight, o \in FetchOutcomes :
       /\ BackendAttempt(o).error = <<>>
       /\ simulationResults' = BackendAttempt(o).results
       /\ isSimulating' = Finally(isSimulating)
       /\ inFlight' = inFlight \ {a}
       /\ lastRun' = [run |-> a.run, path |-> "backend", closure |-> a.closure]
  /\ UNCHANGED <<idle, frame, errorMessage, health, healthResponse, runs, requested>>

\* faulty variant: the catch block also deselects the backend
BackendFails_deselect ==
  /\ Settled
  /\ \E a \in inFlight, o \in FetchOutcomes :
       /\ BackendAttempt(o).error # <<>>
       /\ errorMessage' = BackendAttempt(o).error
       /\ simulationResults' = CatchResults(a.closure, simulationResults)
       /\ isSimulating' = Finally(isSimulating)
       /\ inFlight' = inFlight \ {a}
       /\ lastRun' = [run |-> a.run, path |-> "fallback", closure |-> a.closure]
  /\ useBackend' = FALSE
  /\ UNCHANGED <<idle, location, buildingParams, backendAvailable, health,
                 healthResponse, runs, requested>>

\* the awaited backend call rejects, or the conversion of its body throws:
\* the catch block, then the finally block
BackendFails ==
  /\ Settled
  /\ \E a \in inFlight, o \in FetchOutcomes :
       /\ BackendAttempt(o).error # <<>>
       /\ errorMessage' = BackendAttempt(o).error
       /\ simulationResults' = CatchResults(a.closure, simulationResults)
       /\ isSimulating' = Finally(isSimulating)
       /\ inFlight' = inFlight \ {a}
       /\ lastRun' = [run |-> a.run, path |-> "fallback", closure |-> a.closure]
  /\ UNCHANGED <<idle, frame, health, healthResponse, runs, requested>>

PageNext ==
  \/ Mount
  \/ HealthSettles
  \/ HealthSelects
  \/ Toggle
  \/ ChangeParams
  \/ ChangeLocation
  \/ ClickRun
  \/ BackendAnswers
  \/ BackendFails

PageSpec == PageInit /\ [][PageNext]_vars

\* a pending fetch settles, and a callback that has started runs to its end
PageFairSpec ==
  /\ PageSpec
  /\ WF_vars(HealthSelects)
  /\ WF_vars(BackendAnswers \/ BackendFails)

\* ------------------------------------------------------------------------
\*  Properties
\* ------------------------------------------------------------------------

\* conductive + ventilation - solar gain + longwave of one hourly record
Balance(r) == r.conductiveLoss + r.ventilationLoss - r.solarGain + r.longwaveRadiation

Records == { hourlyResults[i] : i \in DOMAIN hourlyResults }

NetLoads == [i \in DOMAIN hourlyResults |-> hourlyResults[i].netLoad]

ClippedBalances == [i \in DOMAIN hourlyResults |-> Max(0, Balance(hourlyResults[i]))]

SampleHour(s) == IF engine = "lib" THEN s.timestamp.hour ELSE s.hour

SampleTemp(s) == IF engine = "lib" THEN s.temperature ELSE s.outdoorTemp

\* a run of the page's pipeline: a valid envelope and a generated day
RealRun == ValidEnvelope(params) /\ source = "generated"

\* C1 as stated (on a valid envelope and a generated day): in every hourly
\* record of either engine the net load is conductive + ventilation - solar
\* gain + longwave, and in a zero-irradiance hour the solar gain is 0 and the
\* net load is the sum of the three losses.
C1_NetLoadIsBalance ==
  RealRun =>
    \A r \in Records :
      /\ r.netLoad = Balance(r)
      /\ r.solarRadiation = 0 =>
           /\ r.solarGain = 0
           /\ r.netLoad = r.conductiveLoss + r.ventilationLoss + r.longwaveRadiation

\* C1 amended: the reported net load is the balance in the api engine and
\* max(0, balance) in the lib engine, so it is the balance whenever the balance
\* is not negative; in a zero-irradiance hour the solar gain is 0.
C1_NetLoadIsBalanceOrClipped ==
  \A r \in Records :
    /\ Balance(r) >= 0 => r.netLoad = Balance(r)
    /\ engine = "api" => r.netLoad = Balance(r)
    /\ engine = "lib" => r.netLoad = Max(0, Balance(r))
    /\ r.solarRadiation = 0 => r.solarGain = 0

C1_Witness ==
  /\ engine = "lib" /\ pc = "done"
  /\ \E r \in Records : Balance(r) < 0 /\ r.netLoad = 0
  /\ \E r \in Records : r.solarRadiation = 0 /\ r.netLoad = Balance(r) /\ r.netLoad > 0

\* C2 as stated (on a valid envelope and a generated day): the summary total
\* heating load is the sum over the simulated hours of max(0, balance of the
\* hour), divided by 1000, in either engine.
C2_TotalIsClippedSum ==
  (RealRun /\ pc = "done") =>
     result.totalHeatingLoad = Quot(SeqSum(ClippedBalances), 1000)

\* C3 as stated (on a valid envelope and a generated day): the summary average
\* load is (sum of the hourly net loads) / (number of hours), in either engine.
C3_AverageIsMean ==
  (RealRun /\ pc = "done") =>
     result.averageLoad = Quot(SeqSum(NetLoads), Len(hourlyResults))

\* C4: over a 24-sample day the summary peak load is >= every reported hourly
\* net load and equal to the net load of at least one hour.
C4_PeakIsMax ==
  (pc = "done" /\ Len(climateData) = HOURS) =>
     /\ \A r \in Records : result.peakLoad >= r.netLoad
     /\ \E r \in Records : result.peakLoad = r.netLoad

C4_Witness ==
  /\ pc = "done" /\ Len(climateData) = HOURS /\ engine = "lib"
  /\ result.peakLoad > 0
  /\ hourlyResults[HOURS].netLoad < result.peakLoad
  /\ \E r \in Records : r.netLoad = 0

\* C5 as stated (on a valid envelope and a generated day): every reported
\* hourly net load is >= 0, and is 0 whenever the balance conductive +
\* ventilation - solar gain + longwave is negative.
C5_NetLoadClipped ==
  RealRun =>
    \A r \in Records :
      /\ r.netLoad >= 0
      /\ Balance(r) < 0 => r.netLoad = 0

NonNegativeEnvelope(p) ==
  /\ p.wallArea >= 0 /\ p.roofArea >= 0 /\ p.floorArea >= 0 /\ p.windowArea >= 0
  /\ p.wallUValue >= 0 /\ p.roofUValue >= 0 /\ p.floorUValue >= 0 /\ p.windowUValue >= 0
  /\ p.ventilationRate >= 0 /\ p.buildingVolume >= 0

\* C6: with non-negative areas, U-values, ventilation rate and volume, conductive
\* and ventilation loss are both >= 0 when indoor > outdoor, both <= 0 when
\* outdoor > indoor, and both exactly 0 when indoor = outdoor.
C6_LossSigns ==
  NonNegativeEnvelope(params) =>
    \A r \in Records :
      /\ params.indoorTemp > r.outdoorTemp =>
           r.conductiveLoss >= 0 /\ r.ventilationLoss >= 0
      /\ params.indoorTemp < r.outdoorTemp =>
           r.conductiveLoss <= 0 /\ r.ventilationLoss <= 0
      /\ params.indoorTemp = r.outdoorTemp =>
           r.conductiveLoss = 0 /\ r.ventilationLoss = 0

C6_Witness ==
  /\ NonNegativeEnvelope(params)
  /\ \E r \in Records : /\ params.indoorTemp < r.outdoorTemp
                        /\ r.conductiveLoss < 0 /\ r.ventilationLoss < 0
  /\ \E r \in Records : /\ params.indoorTemp = r.outdoorTemp
                        /\ r.conductiveLoss = 0 /\ r.ventilationLoss = 0

\* C7 as stated: no simulation run produces hourly results or a summary from an
\* envelope that violates the envelope invariants (negative area, U-value <= 0,
\* SHGC outside [0,1]).
C7_InvalidEnvelopeRejected ==
  (hourlyResults # <<>> \/ pc = "done") => ValidEnvelope(params)

C9_RecordsFollowSamples ==
  (pc = "done" /\ source = "generated") =>
    /\ Len(result.hourlyResults) = HOURS
    /\ \A i \in 0..(HOURS - 1) :
         LET r == result.hourlyResults[i + 1]
             c == climateData[i + 1]
         IN  /\ r.hour = i
             /\ r.outdoorTemp = SampleTemp(c)
             /\ r.solarRadiation = c.solarRadiation
             /\ r.solarGain = calculateSolarGain(params, c.solarRadiation)
             /\ engine = "lib" =>
                  /\ r.conductiveLoss = calculateConductiveLoss(params, c.temperature)
                  /\ r.ventilationLoss = calculateVentilationLoss(params, c.temperature)
                  /\ r.longwaveRadiation = calculateLongwaveRadiation(params, c.temperature)
             /\ engine = "api" => r = ApiHourlyResult(params, c, i)

C9_Witness ==
  /\ pc = "done" /\ source = "generated" /\ engine = "lib"
  /\ Len(result.hourlyResults) = HOURS
  /\ result.hourlyResults[2].outdoorTemp # result.hourlyResults[1].outdoorTemp
  /\ result.hourlyResults[13].solarGain > 0

\* C10: in every sequence of the latitude/longitude generator a sample whose
\* solar elevation is <= 0 has solar irradiance exactly 0.
C10_NightIsDark ==
  (source = "generated" /\ engine = "api") =>
    \A i \in DOMAIN climateData :
      climateData[i].solarElevationDeg <= 0 => climateData[i].solarRadiation = 0

C10_Witness ==
  /\ source = "generated" /\ engine = "api" /\ Len(climateData) = HOURS
  /\ \E i \in DOMAIN climateData :
       climateData[i].solarElevationDeg <= 0 /\ climateData[i].solarRadiation = 0
  /\ \E i \in DOMAIN climateData :
       climateData[i].solarElevationDeg > 0 /\ climateData[i].solarRadiation > 0

\* C11: every generated climate sample has its hour in 0..23, a solar
\* irradiance >= 0 and, where the generator reports one, a solar elevation
\* >= 0, at every latitude, those where the sun never rises included.
C11_SampleInvariants ==
  source = "generated" =>
    \A i \in DOMAIN climateData :
      /\ SampleHour(climateData[i]) \in 0..(HOURS - 1)
      /\ climateData[i].solarRadiation >= 0
      /\ engine = "api" => climateData[i].solarElevationDeg >= 0

C11_Witness ==
  /\ source = "generated" /\ engine = "api" /\ latitude = 8000
  /\ Len(climateData) = HOURS
  /\ \A i \in DOMAIN climateData :
       climateData[i].solarElevationDeg = 0 /\ climateData[i].solarRadiation = 0

\* C12: within the 24 samples of a generated day no hour has a greater solar
\* irradiance than hour 12; irradiance does not decrease from hour 0 to hour 12
\* and does not increase from hour 12 to hour 23 (both generators).
C12_NoonIsBrightest ==
  (source = "generated" /\ Len(climateData) = HOURS) =>
    /\ \A i \in 1..HOURS :
         climateData[i].solarRadiation <= climateData[13].solarRadiation
    /\ \A i \in 1..12 :
         climateData[i].solarRadiation <= climateData[i + 1].solarRadiation
    /\ \A i \in 13..(HOURS - 1) :
         climateData[i].solarRadiation >= climateData[i + 1].solarRadiation

C12_Witness ==
  /\ source = "generated" /\ engine = "api" /\ Len(climateData) = HOURS
  /\ climateData[1].solarRadiation = 0
  /\ climateData[11].solarRadiation > 0
  /\ climateData[11].solarRadiation < climateData[12].solarRadiation
  /\ climateData[12].solarRadiation < climateData[13].solarRadiation
  /\ climateData[13].solarRadiation > climateData[14].solarRadiation
  /\ climateData[HOURS].solarRadiation = 0

\* C13 as stated: in the 24 generated samples the minimum outdoor temperature
\* occurs at an hour before 06:00 and the maximum at an hour between 12:00 and
\* 18:00 (both generators).
C13_ColdDawnWarmAfternoon ==
  (source = "generated" /\ Len(climateData) = HOURS) =>
    \A i \in 1..HOURS :
      /\ (\A k \in 1..HOURS :
            SampleTemp(climateData[i]) <= SampleTemp(climateData[k])) => i - 1 < 6
      /\ (\A k \in 1..HOURS :
            SampleTemp(climateData[i]) >= SampleTemp(climateData[k]))
           => (i - 1 >= 12 /\ i - 1 <= 18)

ElevationThreshold == Rad(10)

C17_RequestBodyInvariants ==
  caller = "client" =>
    /\ request.building.emissivity >= 0 /\ request.building.emissivity <= 100
    /\ request.building.reflectivity >= 0 /\ request.building.reflectivity <= 100
    /\ request.building.emissivity + request.building.reflectivity <= 100
    /\ request.building.thermal_capacity > 0
    /\ request.building.thermal_resistance > 0
    /\ request.building.wall_area = params.wallArea
    /\ request.building.wall_u_value = params.wallUValue
    /\ request.building.roof_area = params.roofArea
    /\ request.building.roof_u_value = params.roofUValue
    /\ request.building.floor_area = params.floorArea
    /\ request.building.floor_u_value = params.floorUValue
    /\ request.building.window_area = params.windowArea
    /\ request.building.window_u_value = params.windowUValue
    /\ request.building.shgc = params.shgc
    /\ request.building.ventilation_rate = params.ventilationRate
    /\ request.building.building_volume = params.buildingVolume
    /\ request.building.indoor_temp = params.indoorTemp

C17_Witness ==
  /\ caller = "client" /\ request.endpoint = "glasshouse"
  /\ ~ ValidEnvelope(params)
  /\ request.building.wall_area = -150
  /\ request.building.emissivity + request.building.reflectivity = 100

\* C18: the glasshouse solver never does more than max_iterations iterations
\* and can always go on or stop; its answer reports the iterations done and the
\* last iterate, as NonConvergence exactly when the budget was used up without
\* the largest change of the three nodes falling below the tolerance.
C18_GlasshouseTerminates ==
  request.endpoint = "glasshouse" =>
    /\ iterations <= request.max_iterations
    /\ pc = "iterating" => (ENABLED GlassIterate \/ ENABLED GlassReturn)
    /\ pc = "answered" =>
         /\ response.iterations = iterations
         /\ response.interior_temp = glass.interior_temp
         /\ response.glass_temp = glass.glass_temp
         /\ response.collector_temp = glass.collector_temp
         /\ response.status = "ok" <=> Converged
         /\ response.status = "NonConvergence" <=>
              (iterations = request.max_iterations /\ ~ Converged)

C18_Witness ==
  /\ request.endpoint = "glasshouse" /\ pc = "answered"
  /\ response.status = "NonConvergence"
  /\ response.iterations = request.max_iterations
  /\ response.iterations >= 2
  /\ maxChange # <<>> /\ maxChange[1] >= request.tolerance
  /\ response.collector_temp > response.interior_temp

\* C19: the transient model starts at the setpoint unless an initial
\* temperature is supplied, steps through the 24 hours one at a time, hour h
\* starting from the temperature hour h-1 produced (the energy balance of the
\* step holds with that temperature), and its final temperature is the one
\* after hour 23.
C19_TransientSequential ==
  (request.endpoint = "transient" /\ pc \in {"stepping", "answered"}) =>
    LET b         == request.building
        start     == IF request.initial_indoor_temp = <<>>
                     THEN b.indoor_temp ELSE request.initial_indoor_temp[1]
        before(h) == IF h = 0 THEN start ELSE hourly_temps[h]
        sample(h) == ApiSample(request.climate.latitude, h)
        Q(h)      == Div(b.window_area * b.shgc * sample(h).solarRadiation, 100)
    IN  /\ hour <= HOURS
        /\ Len(hourly_temps) = hour /\ Len(hourly_loads) = hour
        /\ thermalState = << before(hour) >>
        /\ \A h \in 0..(hour - 1) :
             StorageConductance(b) * (hourly_temps[h + 1] - before(h))
               = LossConductance(b) * (sample(h).outdoorTemp - hourly_temps[h + 1])
                 + hourly_loads[h + 1] + Q(h)
        /\ pc = "answered" =>
             /\ hour = HOURS
             /\ response.hourly_temps = hourly_temps
             /\ response.hourly_loads = hourly_loads
             /\ response.final_temperature = hourly_temps[HOURS]

C19_Witness ==
  /\ request.endpoint = "transient" /\ pc = "answered"
  /\ request.initial_indoor_temp = << 1500 >>
  /\ request.building.indoor_temp = 2000
  /\ Len(response.hourly_temps) = HOURS
  /\ response.hourly_loads[1] > response.hourly_loads[2]
  /\ response.final_temperature = 2000

\* C20: a transient request with a thermal capacity <= 0 or a thermal
\* resistance <= 0 is answered InvalidParameter before the first step: no
\* hourly temperature or load is produced and no thermal state is created.
C20_TransientRejects ==
  (/\ request.endpoint = "transient"
   /\ \/ request.building.thermal_capacity <= 0
      \/ request.building.thermal_resistance <= 0) =>
    /\ pc \in {"received", "rejected"}
    /\ thermalState = <<>>
    /\ hourly_temps = <<>>
    /\ hourly_loads = <<>>
    /\ pc = "rejected" => response.status = "InvalidParameter"

C20_Witness ==
  /\ request.endpoint = "transient" /\ pc = "rejected"
  /\ ValidEnvelope(params)
  /\ request.building.thermal_capacity > 0
  /\ request.building.thermal_resistance <= 0
  /\ response.status = "InvalidParameter"
  /\ thermalState = <<>> /\ hourly_temps = <<>>

\* C21: the radiosity solve answers NumericInstability whenever the matrix M
\* is singular or near-singular (|det M| below the tolerance), and such an
\* answer carries no radiosities, no radiative flux and no floor temperature;
\* an answer that carries them was computed from a matrix that is neither.
C21_SingularMatrixFails ==
  (request.endpoint = "radiation" /\ pc \in {"failed", "answered"}) =>
    LET M == view_factors[1]
    IN  IF Abs(Det(M)) < SINGULAR_TOLERANCE
        THEN /\ response.status = "NumericInstability"
             /\ DOMAIN response = {"status"}
        ELSE /\ response.status = "ok"
             /\ response.view_factors = M
             /\ \A i \in 1..3 :
                  Abs(M[i][1] * response.radiosity[1] + M[i][2] * response.radiosity[2]
                      + M[i][3] * response.radiosity[3]
                      - 10 * EmissivePowers(request.building,
                                            ApiSample(request.climate.latitude, 12))[i])
                    <= 30

\* the floor row of M is zero and the solve has failed
C21_Witness ==
  /\ request.endpoint = "radiation"
  /\ pc = "failed"
  /\ \A j \in 1..3 : view_factors[1][2][j] = 0
  /\ response.status = "NumericInstability"

\* the hourly record the other engine computes from the envelope and the
\* outdoor temperature and irradiance of record r
OtherEngineRecord(r) ==
  IF engine = "api"
  THEN [conductiveLoss  |-> calculateConductiveLoss(params, r.outdoorTemp),
        ventilationLoss |-> calculateVentilationLoss(params, r.outdoorTemp),
        solarGain       |-> calculateSolarGain(params, r.solarRadiation)]
  ELSE LET a == ApiHourlyResult(params,
                                [outdoorTemp    |-> r.outdoorTemp,
                                 solarRadiation |-> r.solarRadiation,
                                 skyTemp        |-> getSkyTemp(r.outdoorTemp)],
                                r.hour)
       IN  [conductiveLoss  |-> a.conductiveLoss,
            ventilationLoss |-> a.ventilationLoss,
            solarGain       |-> a.solarGain]

C23_FallbackToLocal ==
  lastRun.path = "fallback" =>
    /\ lastRun.closure.useBackend
    /\ simulationResults =
         << LocalEngine(lastRun.closure.buildingParams, lastRun.closure.location) >>
    /\ errorMessage # <<>> \/ runs > lastRun.run

\* a run has fallen back while the form was edited during the call: the
\* displayed results are those of the run's envelope, not of the form's
C23_Witness ==
  /\ lastRun.path = "fallback"
  /\ errorMessage # <<>>
  /\ lastRun.closure.buildingParams # buildingParams
  /\ simulationResults # << LocalEngine(buildingParams, location) >>

\* C24: isSimulating is true only while a backend call is pending, and every
\* run that has set it is followed by a state where it is false again, once
\* the pending call settles.
C24_RunEnds ==
  /\ [](isSimulating => inFlight # {})
  /\ (isSimulating ~> ~ isSimulating)

\* a second run has ended by the fallback, and the button is enabled again
C24_Witness ==
  /\ lastRun.path = "fallback" /\ lastRun.run >= 2
  /\ ~ isSimulating /\ inFlight = {}

\* C25: in every state of the page, useBackend implies backendAvailable.
C25_SelectedOnlyIfAvailable == useBackend => backendAvailable

\* the backend was found, and the user has deselected it and run a simulation
C25_Witness ==
  /\ health = "done" /\ backendAvailable /\ ~ useBackend
  /\ lastRun.run >= 2 /\ lastRun.path = "local"

\* C26: the run started on mount (run 1) never posts a request to the backend;
\* it is over, by the local engine on the state of the first render, before
\* the health check can settle.
C26_MountRunIsLocal ==
  /\ 1 \notin requested
  /\ \A a \in inFlight : a.run # 1
  /\ health # "idle" => runs >= 1
  /\ runs = 1 =>
       /\ lastRun = [run |-> 1, path |-> "local",
                     closure |-> [useBackend |-> FALSE, backendAvailable |-> FALSE,
                                  buildingParams |-> DefaultParams,
                                  location |-> InitialLocation]]
       /\ simulationResults = << LocalEngine(DefaultParams, InitialLocation) >>

\* the health check has found the backend and selected it; the mount run is
\* the only run so far and was local
C26_Witness ==
  /\ health = "done" /\ useBackend /\ backendAvailable
  /\ runs = 1 /\ lastRun.path = "local"

\* C27: at most one backend call is pending; the pending call belongs to the
\* run started last, the button is disabled while it is pending, and the
\* results on display are those of a run started before it.
C27_OneRunInFlight ==
  /\ Cardinality(inFlight) <= 1
  /\ lastRun.run <= runs
  /\ \A a \in inFlight : /\ a.run = runs
                         /\ isSimulating
                         /\ lastRun.run < a.run

\* a third run is pending after two finished ones
C27_Witness ==
  /\ runs = 3 /\ lastRun.run = 2
  /\ \E a \in inFlight : a.run = 3

\* C28: a step of handleSimulate (one that starts a run or ends one) leaves
\* location, buildingParams, useBackend and backendAvailable unchanged, and a
\* run started with the backend selected and available posts a request,
\* whatever the runs before it came to.
C28_HandleSimulateFrame ==
  [][ /\ (runs' # runs \/ lastRun' # lastRun) => UNCHANGED frame
      /\ (runs' # runs /\ useBackend /\ backendAvailable) => runs' \in requested'
    ]_vars

\* after a failed backend call the backend is still selected and the next run
\* has posted its request
C28_Witness ==
  /\ lastRun.path = "fallback"
  /\ useBackend /\ backendAvailable
  /\ \E a \in inFlight : a.run > lastRun.run

\* C29: the promise of checkBackendHealth is never rejected; it resolves with
\* true exactly when GET /health answered with an OK status, and with false for
\* any other status and for a request that failed.
C29_HealthCheckResolves ==
  /\ health # "rejected"
  /\ health \in {"setting", "done"} =>
       /\ healthResponse \in HealthOutcomes
       /\ backendAvailable = (healthResponse = "ok")

\* the request failed and the check resolved with false
C29_Witness ==
  /\ health = "done"
  /\ healthResponse = "failed"
  /\ ~ backendAvailable /\ ~ useBackend

====
